---- MODULE Spec2Model ----
(***************************************************************************)
(* VoiceIt icon generators: generate_icon.py (the 1024x1024 waveform app   *)
(* icon) and generate_alternate_icons.py (Calculator, Weather, Notes and   *)
(* Wellness at 120x120 and 180x180).                                       *)
(*                                                                         *)
(* An image is kept as what determines its pixels: its mode, its size, the *)
(* two gradient colors and the sequence of draw calls issued on it.        *)
(* getpixel computes a pixel from these the way the imaging library does   *)
(* (mask paste, then each covering draw call blended by its alpha).        *)
(* A path is the tuple of the parts that os.path.join and the f-string     *)
(* put together.                                                           *)
(***************************************************************************)
EXTENDS Integers, Sequences, FiniteSets

VARIABLES
    script,        \* which of the two scripts is running
    pilInstalled,  \* whether "from PIL import ..." can succeed
    dirs,          \* directories that exist
    files,         \* path -> image, or NoFile
    output,        \* what was printed, in order
    pc,            \* position of the running script
    idx,           \* number of create_alternate_icon calls completed
    exc,           \* the exception in flight, or "none"
    exit,          \* "running", "normal" (status 0) or "uncaught" (status 1)
    args,          \* inputs of the function under test (function harnesses)
    result         \* what that function produced, or "none"

vars == <<script, pilInstalled, dirs, files, output, pc, idx, exc, exit, args, result>>

procVars == <<script, pilInstalled, dirs, files, output, pc, idx, exc, exit>>

\* ------------------------------------------------------------------ bounds

\* Widths a gradient is created with in the gradient harness (1..MaxWidth).
MaxWidth == 2

\* Glyph centers tried besides the drivers' own (0..MaxCenter).
MaxCenter == 6

\* Calls of create_alternate_icon made by the call harness.
MaxCalls == 2

\* ------------------------------------------------------------ arithmetic

Abs(n) == IF n < 0 THEN 0 - n ELSE n

\* int(size * 0.5), int(size * 0.8), int(size * 0.65), int(size * 0.6):
\* truncation of the product with the decimal fraction num/10^k.  For the
\* operands the scripts use the double product truncates to the same integer.
IntTimes(n, num, den) == (n * num) \div den

\* ------------------------------------------------------------- gradient

\* Variant: the weight taken over height - 1, so that the last row reaches 255.
mask_data_mut(width, height, i) == (255 * (i \div width)) \div (height - 1)

\* One entry of mask_data, 0-based index i of the flat row-major list:
\* row y = i // width contributes [int(255 * (y / height))] * width.  For
\* the heights 120, 180 and 1024 the double product truncates to
\* floor(255 * y / height) at every row.
mask_data(width, height, i) == (255 * (i \div width)) \div height

\* Image.putdata / paste read the mask of pixel (x, y) at index y*width + x.
mask_at(width, height, x, y) == mask_data(width, height, y * width + x)

\* The library's rounded division by 255 of a in 0..65025.
DIV255(a) == ((((a + 128) \div 256) + (a + 128)) \div 256)

\* One channel of base.paste(top, (0, 0), mask): base kept at weight 255-m.
BLEND(m, in1, in2) == DIV255(in1 * (255 - m) + in2 * m)

BlendColor(m, c1, c2) == [k \in 1..3 |-> BLEND(m, c1[k], c2[k])]

\* Variant: the base image created with an alpha channel.
create_gradient_mut(width, height, color1, color2) ==
    [mode |-> "RGBA", size |-> <<width, height>>,
     colors |-> <<color1, color2>>, drawmode |-> "none", draws |-> <<>>]

\* create_gradient: an RGB image of the given size, color1 pasted over by
\* color2 through the row mask; nothing drawn on it yet.
create_gradient(width, height, color1, color2) ==
    [mode |-> "RGB", size |-> <<width, height>>,
     colors |-> <<color1, color2>>, drawmode |-> "none", draws |-> <<>>]

\* The gradient's pixel (x, y).
GradientPixel(img, x, y) ==
    BlendColor(mask_at(img.size[1], img.size[2], x, y), img.colors[1], img.colors[2])

\* ---------------------------------------------------------- draw calls

\* One call on the drawing context.  xy holds the call's coordinates in
\* pixels, except for a line, whose float end points are kept in millionths
\* of a pixel.
DrawCall(shape, xy, radius, fill, width) ==
    [shape |-> shape, xy |-> xy, radius |-> radius, fill |-> fill, width |-> width]

Micro == 1000 * 1000

\* math.cos and math.sin of angle = (i * 45) * 3.14159 / 180, in millionths.
CosMicro(i) ==
    CASE i = 0 -> 1000000 [] i = 1 -> 707107 [] i = 2 -> 1 [] i = 3 -> 0 - 707105
      [] i = 4 -> 0 - 1000000 [] i = 5 -> 0 - 707109 [] i = 6 -> 0 - 4 [] i = 7 -> 707103

SinMicro(i) ==
    CASE i = 0 -> 0 [] i = 1 -> 707106 [] i = 2 -> 1000000 [] i = 3 -> 707108
      [] i = 4 -> 3 [] i = 5 -> 0 - 707104 [] i = 6 -> 0 - 1000000 [] i = 7 -> 0 - 707110

\* The five bars of draw_waveform: offset of the bar's center from center_x
\* in units of (bar_width + spacing), and its height ratio in tenths.
WaveformBars == << <<0 - 2, 5>>, <<0 - 1, 7>>, <<0, 10>>, <<1, 7>>, <<2, 5>> >>

draw_waveform(center_x, center_y, size, color) ==
    LET bar_width == size \div 10
        spacing == size \div 12
        Bar(b) ==
            LET x == center_x + WaveformBars[b][1] * (bar_width + spacing)
                \* bar_height = size * height_ratio; bar_height // 2
                half == (size * WaveformBars[b][2]) \div 20
            IN  DrawCall("rounded_rectangle",
                         <<x - bar_width \div 2, center_y - half,
                           x + bar_width \div 2, center_y + half>>,
                         bar_width \div 2, color, 0)
    IN  [b \in 1..5 |-> Bar(b)]

\* The display's outline is of the fill's color on the same box and adds no
\* pixel.
draw_calculator_icon(center_x, center_y, size, color) ==
    LET display_height == size \div 5
        display_width == IntTimes(size, 8, 10)
        display_x == center_x - display_width \div 2
        display_y == center_y - size \div 2 + size \div 10
        button_size == size \div 7
        button_spacing == size \div 15
        start_y == display_y + display_height + button_spacing * 2
        Button(row, col) ==
            LET x == center_x - button_size - button_spacing
                       + col * (button_size + button_spacing)
                y == start_y + row * (button_size + button_spacing)
            IN  DrawCall("rounded_rectangle",
                         <<x, y, x + button_size, y + button_size>>,
                         button_size \div 4, color, 0)
    IN  <<DrawCall("rounded_rectangle",
                   <<display_x, display_y,
                     display_x + display_width, display_y + display_height>>,
                   size \div 30, color, 0)>>
        \o [n \in 1..9 |-> Button((n - 1) \div 3, (n - 1) % 3)]

draw_weather_icon(center_x, center_y, size, color) ==
    LET ray_length == size \div 6
        ray_width == size \div 40
        Ray(i) ==
            DrawCall("line",
                     <<center_x * Micro + CosMicro(i) * (size \div 4),
                       (center_y - size \div 6) * Micro + SinMicro(i) * (size \div 4),
                       center_x * Micro + CosMicro(i) * (size \div 4 + ray_length),
                       (center_y - size \div 6) * Micro
                           + SinMicro(i) * (size \div 4 + ray_length)>>,
                     0, color, ray_width)
        sun_radius == size \div 8
        cloud_y == center_y + size \div 10
    IN  [n \in 1..8 |-> Ray(n - 1)]
        \o <<DrawCall("ellipse",
                      <<center_x - sun_radius, center_y - size \div 6 - sun_radius,
                        center_x + sun_radius, center_y - size \div 6 + sun_radius>>,
                      0, color, 0),
             DrawCall("ellipse",
                      <<center_x - size \div 4, cloud_y - size \div 10,
                        center_x, cloud_y + size \div 10>>, 0, color, 0),
             DrawCall("ellipse",
                      <<center_x - size \div 6, cloud_y - size \div 6,
                        center_x + size \div 6, cloud_y + size \div 8>>, 0, color, 0),
             DrawCall("ellipse",
                      <<center_x, cloud_y - size \div 10,
                        center_x + size \div 4, cloud_y + size \div 10>>, 0, color, 0)>>

\* The fill of the four text lines of draw_notes_icon.
\* Variant: the darker shade the code's comments speak of.
LineFill_mut == <<200, 200, 200, 180>>

LineFill == <<255, 255, 255, 180>>

draw_notes_icon(center_x, center_y, size, color) ==
    LET paper_width == IntTimes(size, 65, 100)
        paper_height == IntTimes(size, 8, 10)
        paper_x == center_x - paper_width \div 2
        paper_y == center_y - paper_height \div 2
        line_spacing == size \div 8
        line_width == IntTimes(paper_width, 8, 10)
        line_height == size \div 40
        line_x == paper_x + paper_width \div 10
        Line(i) ==
            LET line_y == paper_y + paper_height \div 4 + i * line_spacing
            IN  DrawCall("rectangle",
                         <<line_x, line_y, line_x + line_width, line_y + line_height>>,
                         0, LineFill, 0)
    IN  <<DrawCall("rounded_rectangle",
                   <<paper_x, paper_y, paper_x + paper_width, paper_y + paper_height>>,
                   size \div 30, color, 0)>>
        \o [n \in 1..4 |-> Line(n - 1)]

draw_wellness_icon(center_x, center_y, size, color) ==
    LET heart_size == IntTimes(size, 6, 10)
        left_center_x == center_x - heart_size \div 4
        left_center_y == center_y - heart_size \div 6
        circle_radius == heart_size \div 3
        right_center_x == center_x + heart_size \div 4
        right_center_y == center_y - heart_size \div 6
    IN  <<DrawCall("ellipse",
                   <<left_center_x - circle_radius, left_center_y - circle_radius,
                     left_center_x + circle_radius, left_center_y + circle_radius>>,
                   0, color, 0),
          DrawCall("ellipse",
                   <<right_center_x - circle_radius, right_center_y - circle_radius,
                     right_center_x + circle_radius, right_center_y + circle_radius>>,
                   0, color, 0),
          DrawCall("polygon",
                   <<left_center_x - circle_radius, left_center_y,
                     right_center_x + circle_radius, right_center_y,
                     center_x, center_y + heart_size \div 2>>,
                   0, color, 0),
          DrawCall("rectangle",
                   <<left_center_x, left_center_y - circle_radius,
                     right_center_x, center_y + heart_size \div 4>>,
                   0, color, 0)>>

\* --------------------------------------------------------------- pixels

\* Whether a rectangle or rounded rectangle covers pixel (x, y).  Both end
\* coordinates are inclusive.  A rounded rectangle leaves out, in each
\* radius x radius corner square, the pixels outside the corner's circle.
Covers(d, x, y) ==
    LET x0 == d.xy[1]
        y0 == d.xy[2]
        x1 == d.xy[3]
        y1 == d.xy[4]
        r == d.radius
        ccx == IF x < x0 + r THEN x0 + r ELSE x1 - r
        ccy == IF y < y0 + r THEN y0 + r ELSE y1 - r
        inCorner == (x < x0 + r \/ x > x1 - r) /\ (y < y0 + r \/ y > y1 - r)
    IN  /\ d.shape \in {"rectangle", "rounded_rectangle"}
        /\ x0 <= x /\ x <= x1 /\ y0 <= y /\ y <= y1
        /\ (d.shape = "rounded_rectangle" /\ inCorner)
              => (x - ccx) * (x - ccx) + (y - ccy) * (y - ccy) <= r * r

\* A draw call's ink put on pixel color c.  An "RGBA" drawing context blends
\* the ink over the pixel by the ink's alpha; any other overwrites.
Ink(drawmode, d, c) ==
    IF drawmode = "RGBA"
    THEN [k \in 1..3 |-> BLEND(d.fill[4], c[k], d.fill[k])]
    ELSE [k \in 1..3 |-> d.fill[k]]

\* The pixel (x, y) after the first n draw calls.
RECURSIVE PixelAfter(_, _, _, _)
PixelAfter(img, n, x, y) ==
    IF n = 0
    THEN GradientPixel(img, x, y)
    ELSE LET below == PixelAfter(img, n - 1, x, y)
         IN  IF Covers(img.draws[n], x, y)
             THEN Ink(img.drawmode, img.draws[n], below)
             ELSE below

getpixel(img, x, y) == PixelAfter(img, Len(img.draws), x, y)

\* ------------------------------------------------------ gradient harness

\* The canvas sizes the two scripts use.
AlternateSizes == {120, 180}

AppIconSize == 1024

SupportedSizes == AlternateSizes \cup {AppIconSize}

\* The gradient colors of the two scripts and a few extreme ones.
WaveformColors == << <<124, 58, 237>>, <<167, 85, 255>> >>

SampleColors ==
    { <<100, 120, 140>>, <<140, 160, 180>>, <<70, 130, 200>>, <<100, 180, 255>>,
      <<255, 200, 80>>, <<255, 220, 100>>, <<200, 100, 150>>, <<230, 130, 180>>,
      WaveformColors[1], WaveformColors[2],
      <<0, 0, 0>>, <<255, 255, 255>>, <<255, 0, 128>>, <<1, 254, 127>> }

IdleProc ==
    /\ script = "none"
    /\ pilInstalled = TRUE
    /\ dirs = {}
    /\ files = <<>>
    /\ output = <<>>
    /\ pc = "harness"
    /\ idx = 0
    /\ exc = "none"
    /\ exit = "running"

InitGradient ==
    /\ IdleProc
    /\ args \in [width : 1..MaxWidth, height : SupportedSizes,
                 color1 : SampleColors, color2 : SampleColors]
    /\ result = <<>>

CallCreateGradient ==
    /\ result = <<>>
    /\ result' = <<create_gradient(args.width, args.height, args.color1, args.color2)>>
    /\ UNCHANGED <<procVars, args>>

NextGradient == CallCreateGradient

SpecGradient == InitGradient /\ [][NextGradient]_vars

\* The largest distance of the last row from color2 at a height: the weight
\* of the last row is int(255 * (height - 1) / height), short of 255.
LastRowSlack(height) == 255 - (255 * (height - 1)) \div height

GradientShape(tolerance) ==
    Len(result) = 1 =>
        LET img == result[1]
            w == img.size[1]
            h == img.size[2]
            c1 == args.color1
            c2 == args.color2
        IN  /\ img.size = <<args.width, args.height>>
            /\ \A x \in 0..(w - 1) : GradientPixel(img, x, 0) = c1
            /\ \A x \in 0..(w - 1) : \A k \in 1..3 :
                   Abs(GradientPixel(img, x, h - 1)[k] - c2[k]) <= tolerance
            /\ \A y \in 0..(h - 2) : mask_at(w, h, 0, y) <= mask_at(w, h, 0, y + 1)
            /\ \A y \in 0..(h - 1) : \A x \in 0..(w - 1) :
                   LET m == mask_at(w, h, x, y)
                   IN  /\ m = mask_at(w, h, 0, y)
                       /\ m * h <= 255 * y /\ 255 * y < (m + 1) * h
                       /\ \A k \in 1..3 :
                              2 * Abs(255 * GradientPixel(img, x, y)[k]
                                        - (c1[k] * (255 - m) + c2[k] * m)) <= 255

\* C5 as stated: row 0 is color1, the last row is color2 within 1 per
\* channel, the weight is non-decreasing in y, constant along a row and
\* int(255*y/height), and each pixel is the interpolation at that weight.
C5_GradientWithinOne == GradientShape(1)

\* C5 amended: as C5, but the last row is within 255 - int(255*(height-1)/height)
\* of color2 per channel (3 at height 120, 2 at 180, 1 at 1024).
C5_GradientWithinSlack ==
    Len(result) = 1 => GradientShape(LastRowSlack(args.height))

\* A gradient of height 120 from black to white has been created: its last
\* row is 3 short of color2.
C5_Witness ==
    /\ Len(result) = 1
    /\ args.height = 120
    /\ args.color1 = <<0, 0, 0>>
    /\ args.color2 = <<255, 255, 255>>
    /\ GradientPixel(result[1], 0, 119) = <<252, 252, 252>>

\* ------------------------------------------------------------- canvases

White == <<255, 255, 255, 255>>

\* The keys of icon_configs.
IconTypes == {"Calculator", "Weather", "Notes", "Wellness"}

\* icon_configs[icon_type]['colors']
icon_colors(icon_type) ==
    CASE icon_type = "Calculator" -> << <<100, 120, 140>>, <<140, 160, 180>> >>
      [] icon_type = "Weather" -> << <<70, 130, 200>>, <<100, 180, 255>> >>
      [] icon_type = "Notes" -> << <<255, 200, 80>>, <<255, 220, 100>> >>
      [] icon_type = "Wellness" -> << <<200, 100, 150>>, <<230, 130, 180>> >>

\* icon_configs[icon_type]['draw_func'], called.
draw_func(icon_type, center_x, center_y, size, color) ==
    CASE icon_type = "Calculator" -> draw_calculator_icon(center_x, center_y, size, color)
      [] icon_type = "Weather" -> draw_weather_icon(center_x, center_y, size, color)
      [] icon_type = "Notes" -> draw_notes_icon(center_x, center_y, size, color)
      [] icon_type = "Wellness" -> draw_wellness_icon(center_x, center_y, size, color)

\* ImageDraw.Draw(img, mode) followed by the draw calls: the image is drawn
\* on in place, its own mode unchanged.
ImageDraw(img, mode, calls) ==
    [img EXCEPT !.drawmode = mode, !.draws = @ \o calls]

\* The canvas of create_alternate_icon with the glyph centered at (cx, cy).
AlternateCanvas(icon_type, size, cx, cy) ==
    ImageDraw(create_gradient(size, size, icon_colors(icon_type)[1],
                              icon_colors(icon_type)[2]),
              "RGBA",
              draw_func(icon_type, cx, cy, IntTimes(size, 5, 10), White))

\* The canvas of create_app_icon with the glyph centered at (cx, cy);
\* ImageDraw.Draw(img) draws in the image's own mode, the ink opaque.
AppIconCanvas(size, cx, cy) ==
    LET img == create_gradient(size, size, WaveformColors[1], WaveformColors[2])
    IN  ImageDraw(img, img.mode, draw_waveform(cx, cy, size \div 2, White))

\* --------------------------------------------------------- glyph harness

GlyphInputs ==
    {<<t, s>> : t \in IconTypes, s \in AlternateSizes} \cup {<<"Waveform", AppIconSize>>}

InitGlyph ==
    /\ IdleProc
    /\ \E g \in GlyphInputs : \E dx \in (0 - MaxCenter)..MaxCenter :
           args = [icon_type |-> g[1], size |-> g[2],
                   center_x |-> g[2] \div 2 + dx, center_y |-> g[2] \div 2]
    /\ result = <<>>

CallDrawGlyph ==
    /\ result = <<>>
    /\ result' =
          <<IF args.icon_type = "Waveform"
            THEN AppIconCanvas(args.size, args.center_x, args.center_y)
            ELSE AlternateCanvas(args.icon_type, args.size, args.center_x, args.center_y)>>
    /\ UNCHANGED <<procVars, args>>

NextGlyph == CallDrawGlyph

SpecGlyph == InitGlyph /\ [][NextGlyph]_vars

Drawn(icon_type) == Len(result) = 1 /\ args.icon_type = icon_type

\* The glyph is centered on the canvas, as both drivers call the drawers.
DriverCentered == args.center_x = args.size \div 2

\* ---------------------------------------------------------- file system

\* os.path.join(output_dir, f"{icon_type}@{size//60}x.png"), as its parts.
\* Variant: the scale taken as size // 120.
AlternatePath_mut(output_dir, icon_type, size) ==
    <<output_dir, icon_type, "@", size \div 120, "x.png">>

AlternatePath(output_dir, icon_type, size) ==
    <<output_dir, icon_type, "@", size \div 60, "x.png">>

\* main's output_dir, and the directories os.makedirs creates for it.
output_dir == "VoiceIt/Icons"

OutputDirs == {"VoiceIt", "VoiceIt/Icons"}

\* icon_path of generate_icon.py: directory and file name.
icon_dir == "VoiceIt/Assets.xcassets/AppIcon.appiconset"

icon_path == <<icon_dir, "icon-1024.png">>

\* An identifier that is no key of icon_configs.
UnknownTypes == {"Sports"}

\* The file names "{identifier}@{n}x.png" in output_dir, and icon_path.
Paths ==
    {<<output_dir, t, "@", n, "x.png">> : t \in IconTypes \cup UnknownTypes, n \in 1..3}
      \cup {icon_path}

\* A file left by an earlier run of something else, and one a failed save
\* left behind.
StaleImage ==
    [mode |-> "stale", size |-> <<1, 1>>, colors |-> <<>>, drawmode |-> "none",
     draws |-> <<>>]

TruncatedImage ==
    [mode |-> "truncated", size |-> <<0, 0>>, colors |-> <<>>, drawmode |-> "none",
     draws |-> <<>>]

\* files[p] is <<>> (no file) or <<image>>.
InitialFileSystems == {[p \in Paths |-> <<>>], [p \in Paths |-> <<StaleImage>>]}

\* img.save(output_path, 'PNG'): the path's file replaced by the image.
save(fs, path, img) == [fs EXCEPT ![path] = <<img>>]

\* -------------------------------------------------------------- console

Message(msg, arg) == [msg |-> msg, arg |-> arg]

Printed(msg) == \E i \in DOMAIN output : output[i].msg = msg

\* ------------------------------------------------ create_alternate_icon

\* Variant: no check of icon_type, an unknown one drawn as the first
\* configuration.
create_alternate_icon_mut(fs, out, icon_type, dir, size) ==
    LET known == IF icon_type \in IconTypes THEN icon_type ELSE "Calculator"
        img == AlternateCanvas(known, size, size \div 2, size \div 2)
        output_path == AlternatePath(dir, icon_type, size)
    IN  [files |-> save(fs, output_path, img),
         output |-> Append(out, Message("Created icon", output_path)),
         canvas |-> <<img>>]

\* create_alternate_icon on file system fs and console out, when nothing
\* raises: the file system and console after it, and the canvas it made.
create_alternate_icon(fs, out, icon_type, dir, size) ==
    IF icon_type \notin IconTypes
    THEN [files |-> fs,
          output |-> Append(out, Message("Unknown icon type", icon_type)),
          canvas |-> <<>>]
    ELSE LET img == AlternateCanvas(icon_type, size, size \div 2, size \div 2)
             output_path == AlternatePath(dir, icon_type, size)
         IN  [files |-> save(fs, output_path, img),
              output |-> Append(out, Message("Created icon", output_path)),
              canvas |-> <<img>>]

\* ----------------------------------------------------------- call harness

InitCalls ==
    /\ script = "none"
    /\ pilInstalled = TRUE
    /\ dirs = OutputDirs
    /\ files \in InitialFileSystems
    /\ output = <<>>
    /\ pc = "harness"
    /\ idx = 0
    /\ exc = "none"
    /\ exit = "running"
    /\ args = [icon_type |-> "none", size |-> 0]
    /\ result = <<>>

CallCreateAlternateIcon ==
    /\ idx < MaxCalls
    /\ \E icon_type \in IconTypes \cup UnknownTypes : \E size \in AlternateSizes :
          LET r == create_alternate_icon(files, output, icon_type, output_dir, size)
          IN  /\ files' = r.files
              /\ output' = r.output
              /\ result' = r.canvas
              /\ args' = [icon_type |-> icon_type, size |-> size]
    /\ idx' = idx + 1
    /\ UNCHANGED <<script, pilInstalled, dirs, pc, exc, exit>>

NextCalls == CallCreateAlternateIcon

SpecCalls == InitCalls /\ [][NextCalls]_vars

\* ------------------------------------------------------- the two scripts

Scripts == {"generate_icon", "generate_alternate_icons"}

\* What can be raised while generating: a failed write (OSError), a failed
\* allocation (MemoryError), a failed late import (ImportError).
BeforeSaveErrors == {"MemoryError", "ImportError"}

\* icon_types of main, in order.
icon_types == <<"Calculator", "Weather", "Notes", "Wellness">>

\* The k-th call of main's loop (k from 0): for each icon_type, 120 then 180.
\* Variant: all the 120 files first, then all the 180 files.
BatchItem_mut(k) ==
    [icon_type |-> icon_types[(k % 4) + 1], size |-> IF k \div 4 = 0 THEN 120 ELSE 180]

BatchItem(k) ==
    [icon_type |-> icon_types[(k \div 2) + 1], size |-> IF k % 2 = 0 THEN 120 ELSE 180]

BatchLen == 2 * Len(icon_types)

\* The except clauses of the __main__ block, for exception e.
\* Variant: generate_alternate_icons.py without traceback.print_exc().
handler_mut(s, e) ==
    IF s = "generate_alternate_icons" /\ e # "ImportError"
    THEN <<Message("Error", e)>>
    ELSE <<Message("Error", e), Message("Traceback", e)>>

handler(s, e) ==
    IF s = "generate_alternate_icons"
    THEN IF e = "ImportError"
         THEN <<Message("Error: PIL (Pillow) is not installed", e),
                Message("To fix this, install Pillow", e)>>
         ELSE <<Message("Error", e), Message("Traceback", e)>>
    ELSE <<Message("Error", e), Message("To fix this, install Pillow", e)>>

Init ==
    /\ script \in Scripts
    /\ pilInstalled \in BOOLEAN
    /\ dirs \in {{}, {"VoiceIt", icon_dir}}
    /\ files \in InitialFileSystems
    /\ output = <<>>
    /\ pc = "import"
    /\ idx = 0
    /\ exc = "none"
    /\ exit = "running"
    /\ args = <<>>
    /\ result = <<>>

Raise(e) ==
    /\ exc' = e
    /\ pc' = "except"

\* "from PIL import Image, ImageDraw, ImageFont" at the top of the module,
\* before the try statement: a failure is raised to the interpreter, which
\* prints the traceback and exits with status 1.
ImportPIL ==
    /\ pc = "import"
    /\ IF pilInstalled
       THEN /\ pc' = "main"
            /\ UNCHANGED <<output, exc, exit>>
       ELSE /\ exc' = "ImportError"
            /\ output' = Append(output, Message("Traceback", "ImportError"))
            /\ exit' = "uncaught"
            /\ pc' = "done"
    /\ UNCHANGED <<script, pilInstalled, dirs, files, idx, args, result>>

\* main: os.makedirs(output_dir, exist_ok=True).
MakeDirs ==
    /\ pc = "main"
    /\ script = "generate_alternate_icons"
    /\ \/ /\ dirs' = dirs \cup OutputDirs
          /\ pc' = "loop"
          /\ UNCHANGED exc
       \/ /\ Raise("OSError")
          /\ UNCHANGED dirs
    /\ UNCHANGED <<script, pilInstalled, files, output, idx, exit, args, result>>

\* main: the next create_alternate_icon call of the loop.  It returns, or
\* raises before the save, or the save raises, leaving the path's file as it
\* was or truncated.
LoopCall ==
    /\ pc = "loop"
    /\ idx < BatchLen
    /\ LET item == BatchItem(idx)
           r == create_alternate_icon(files, output, item.icon_type, output_dir, item.size)
       IN  \/ /\ files' = r.files
              /\ output' = r.output
              /\ idx' = idx + 1
              /\ UNCHANGED <<pc, exc>>
           \/ /\ \E e \in BeforeSaveErrors : Raise(e)
              /\ UNCHANGED <<files, output, idx>>
           \/ /\ Raise("OSError")
              /\ \E left \in {files[AlternatePath(output_dir, item.icon_type, item.size)],
                              <<TruncatedImage>>} :
                    files' = [files EXCEPT
                                 ![AlternatePath(output_dir, item.icon_type, item.size)] = left]
              /\ UNCHANGED <<output, idx>>
    /\ UNCHANGED <<script, pilInstalled, dirs, exit, args, result>>

\* main: the prints after the loop; the script ends.
MainDone ==
    /\ pc = "loop"
    /\ idx = BatchLen
    /\ output' = output \o <<Message("All alternate icons generated successfully", output_dir),
                             Message("Icons saved to", output_dir),
                             Message("IMPORTANT: add these files to your Xcode project",
                                     output_dir)>>
    /\ pc' = "done"
    /\ exit' = "normal"
    /\ UNCHANGED <<script, pilInstalled, dirs, files, idx, exc, args, result>>

\* generate_icon.py: create_app_icon(icon_path, 1024) and the two prints
\* after it.  The save raises when the icon's directory does not exist.
CreateAppIcon ==
    /\ pc = "main"
    /\ script = "generate_icon"
    /\ \/ /\ icon_dir \in dirs
          /\ files' = save(files, icon_path,
                           AppIconCanvas(AppIconSize, AppIconSize \div 2, AppIconSize \div 2))
          /\ output' = output \o <<Message("Created app icon", icon_path),
                                   Message("App icon generated successfully", icon_path),
                                   Message("The icon will appear when you build the app",
                                           icon_path)>>
          /\ pc' = "done"
          /\ exit' = "normal"
          /\ UNCHANGED exc
       \/ /\ \E e \in BeforeSaveErrors : Raise(e)
          /\ UNCHANGED <<files, output, exit>>
       \/ /\ Raise("OSError")
          /\ \E left \in {files[icon_path]} \cup
                         (IF icon_dir \in dirs THEN {<<TruncatedImage>>} ELSE {}) :
                files' = [files EXCEPT ![icon_path] = left]
          /\ UNCHANGED <<output, exit>>
    /\ UNCHANGED <<script, pilInstalled, dirs, idx, args, result>>

\* The __main__ block's except clause runs, and the script ends normally.
Handle ==
    /\ pc = "except"
    /\ output' = output \o handler(script, exc)
    /\ pc' = "done"
    /\ exit' = "normal"
    /\ UNCHANGED <<script, pilInstalled, dirs, files, idx, exc, args, result>>

Next ==
    \/ ImportPIL
    \/ MakeDirs
    \/ LoopCall
    \/ MainDone
    \/ CreateAppIcon
    \/ Handle

Spec == Init /\ [][Next]_vars

\* ---- C6

\* C6: the calculator's display and its 3x3 button grid are both centered
\* on center_x (left and right edge equidistant from it), and the grid lies
\* entirely below the display.
C6_CalculatorCentered ==
    Drawn("Calculator") =>
        LET d == result[1].draws
            display == d[1].xy
            first == d[2].xy
            third == d[4].xy
        IN  /\ Len(d) = 10
            /\ args.center_x - display[1] = display[3] - args.center_x
            /\ args.center_x - first[1] = third[3] - args.center_x
            /\ \A n \in 2..10 : d[n].xy[2] > display[4]

\* ---- C7

\* Mirroring column c to width-1-c, within one pixel; the float end points
\* of a line get one thousandth of a pixel more, along and across the rows.
NearX(a, b, unit, slack) == Abs(a - b) <= unit + slack

Mirrors(p, q, width) ==
    LET unit == IF p.shape = "line" THEN Micro ELSE 1
        ytol == IF p.shape = "line" THEN Micro \div 1000 ELSE 0
        flip(x) == (width - 1) * unit - x
    IN  /\ q.shape = p.shape
        /\ q.radius = p.radius
        /\ q.width = p.width
        /\ q.fill = p.fill
        /\ CASE p.shape \in {"rectangle", "rounded_rectangle", "ellipse"} ->
                  /\ NearX(q.xy[1], flip(p.xy[3]), unit, ytol)
                  /\ NearX(q.xy[3], flip(p.xy[1]), unit, ytol)
                  /\ q.xy[2] = p.xy[2]
                  /\ q.xy[4] = p.xy[4]
             [] p.shape = "line" ->
                  /\ NearX(q.xy[1], flip(p.xy[1]), unit, ytol)
                  /\ NearX(q.xy[3], flip(p.xy[3]), unit, ytol)
                  /\ Abs(q.xy[2] - p.xy[2]) <= ytol
                  /\ Abs(q.xy[4] - p.xy[4]) <= ytol
             [] p.shape = "polygon" ->
                  \A i \in {1, 3, 5} : \E j \in {1, 3, 5} :
                      /\ NearX(q.xy[j], flip(p.xy[i]), unit, ytol)
                      /\ q.xy[j + 1] = p.xy[i + 1]

MirrorSymmetric(img) ==
    \A i \in DOMAIN img.draws : \E j \in DOMAIN img.draws :
        Mirrors(img.draws[i], img.draws[j], img.size[1])

WaveformBarsAsStated ==
    LET d == result[1].draws
        size == args.size \div 2
        center2(b) == d[b].xy[1] + d[b].xy[3]
        height(b) == d[b].xy[4] - d[b].xy[2]
    IN  /\ Len(d) = 5
        /\ \A b \in 1..5 : Abs(10 * height(b) - WaveformBars[b][2] * size) <= 10
        /\ <<WaveformBars[1][2], WaveformBars[2][2], WaveformBars[3][2],
             WaveformBars[4][2], WaveformBars[5][2]>> = <<5, 7, 10, 7, 5>>
        /\ \A b \in 1..3 : center2(b + 1) - center2(b) = center2(b + 2) - center2(b + 1)
        /\ \A b \in 1..5 : center2(b) + center2(6 - b) = 4 * args.center_x

\* C7: the canvases of Waveform (1024) and of Calculator, Weather and
\* Wellness (120 and 180) are unchanged by mirroring about the vertical
\* center line, within tolerance; the five waveform bars are 0.5, 0.7, 1.0,
\* 0.7, 0.5 times size high, evenly spaced and mirrored about center_x.
C7_SymmetricGlyphs ==
    (Len(result) = 1 /\ DriverCentered
        /\ args.icon_type \in {"Waveform", "Calculator", "Weather", "Wellness"}) =>
        /\ MirrorSymmetric(result[1])
        /\ args.icon_type = "Waveform" => WaveformBarsAsStated

\* ---- C10

\* Rectangle r (inclusive) has a pixel in the radius x radius corner squares
\* of rounded rectangle p.
TouchesCorner(r, p) ==
    LET rad == p.radius
    IN  /\ r[1] < p.xy[1] + rad \/ r[3] > p.xy[3] - rad
        /\ r[2] < p.xy[2] + rad \/ r[4] > p.xy[4] - rad

NotesLinesInsidePaper ==
    LET d == result[1].draws
        paper == d[1]
        size == IntTimes(args.size, 5, 10)
    IN  /\ Len(d) = 5
        /\ paper.shape = "rounded_rectangle"
        /\ paper.fill = White
        /\ \A n \in 2..5 :
              /\ d[n].shape = "rectangle"
              /\ d[n].fill = <<255, 255, 255, 180>>
              /\ paper.xy[1] <= d[n].xy[1] /\ d[n].xy[3] <= paper.xy[3]
              /\ paper.xy[2] <= d[n].xy[2] /\ d[n].xy[4] <= paper.xy[4]
              /\ d[n].xy[1] <= d[n].xy[3] /\ d[n].xy[2] <= d[n].xy[4]
              /\ ~TouchesCorner(d[n].xy, paper)
        /\ \A n \in 2..4 : d[n + 1].xy[2] - d[n].xy[2] = size \div 8

\* The canvas with only its first draw call (the paper) made.
PaperOnly(img) == [img EXCEPT !.draws = <<img.draws[1]>>]

WrittenPath(icon_type, size) ==
    <<"VoiceIt/Icons", icon_type, "@", IF size = 120 THEN 2 ELSE 3, "x.png">>

LastCallKnown ==
    /\ idx' = idx + 1
    /\ args'.icon_type \in {"Calculator", "Weather", "Notes", "Wellness"}
    /\ args'.size \in {120, 180}

FileWrittenByLastCall ==
    LET p == WrittenPath(args'.icon_type, args'.size)
    IN  /\ p \in DOMAIN files'
        /\ Len(files'[p]) = 1
        /\ files'[p] = result'
        /\ files'[p][1].size = <<args'.size, args'.size>>
        /\ \A q \in DOMAIN files' \ {p} : files'[q] = files[q]

\* C1: a call for one of the four identifiers at 120 or 180 writes exactly
\* one file, output_dir/{identifier}@2x.png or @3x.png, of size x size pixels.
C1_OneFileOfRequestedSize == [][LastCallKnown => FileWrittenByLastCall]_vars

\* Calculator at 120 has been written over a stale Calculator@2x.png, the
\* other stale files untouched.
C1_Witness ==
    /\ idx = 1
    /\ args = [icon_type |-> "Calculator", size |-> 120]
    /\ Len(result) = 1
    /\ files[WrittenPath("Calculator", 120)] = result
    /\ result[1].size = <<120, 120>>
    /\ files[WrittenPath("Calculator", 180)] = <<StaleImage>>

\* ---- C2

HasAlpha(mode) == mode \in {"RGBA", "LA"}

SavedIcons == {output[i].arg : i \in {j \in DOMAIN output : output[j].msg = "Created icon"}}

LastCallUnknown ==
    /\ idx' = idx + 1
    /\ args'.icon_type \notin {"Calculator", "Weather", "Notes", "Wellness"}

\* C3: a call with an identifier that is no key of the configuration prints
\* an error, makes no canvas, writes no file, raises nothing and leaves every
\* file as it was; a later call for a supported identifier writes its file.
C3_UnknownIdentifierSkipped ==
    [][/\ LastCallUnknown =>
            /\ output' = Append(output, [msg |-> "Unknown icon type",
                                          arg |-> args'.icon_type])
            /\ result' = <<>>
            /\ files' = files
            /\ exc' = "none" /\ exit' = "running"
       /\ (LastCallKnown /\ Printed("Unknown icon type")) => FileWrittenByLastCall]_vars

\* "Sports" was asked for and reported, and Weather at 180 written after it.
C3_Witness ==
    /\ Len(output) = 2
    /\ output[1] = [msg |-> "Unknown icon type", arg |-> "Sports"]
    /\ output[2] = [msg |-> "Created icon", arg |-> WrittenPath("Weather", 180)]
    /\ Len(files[WrittenPath("Weather", 180)]) = 1
    /\ \A n \in 1..3 : files[<<"VoiceIt/Icons", "Sports", "@", n, "x.png">>] = <<>>

\* ---- C4

\* C4: in both scripts, when the imaging library cannot be loaded, the run
\* ends having printed the handler's "install Pillow" guidance and having
\* created no file and no directory.
C4_MissingDependencyReported ==
    (~pilInstalled /\ pc = "done") =>
        /\ Printed("To fix this, install Pillow")
        /\ files \in InitialFileSystems
        /\ dirs \cap OutputDirs \subseteq {"VoiceIt"}
        /\ idx = 0

\* ---- C8

RaisedWhileGenerating == pc = "done" /\ exc \notin {"none", "ImportError"}

LastLines(seq, n) == SubSeq(seq, Len(seq) - n + 1, Len(seq))

\* Nothing was run again after the exception: the console holds the lines of
\* the calls completed before it and, after them, two lines of the handler.
NothingRetried ==
    /\ Len(output) = idx + 2
    /\ \A i \in 1..idx : output[i].msg = "Created icon"
    /\ ~Printed("All alternate icons generated successfully")
    /\ ~Printed("App icon generated successfully")

\* C8 as stated: in both scripts an exception raised while generating, other
\* than the missing dependency, is caught, reported with an error message and
\* a stack trace, and the script ends normally, nothing retried.
C8_CaughtWithTrace ==
    RaisedWhileGenerating =>
        /\ exit = "normal"
        /\ LastLines(output, 2) = <<[msg |-> "Error", arg |-> exc],
                               [msg |-> "Traceback", arg |-> exc]>>
        /\ NothingRetried

\* C8 amended: such an exception is caught, reported with an error message,
\* and the script ends normally, nothing retried; generate_alternate_icons.py
\* logs the stack trace, generate_icon.py prints the install-Pillow hint and
\* no stack trace.
C8_CaughtAndReported ==
    RaisedWhileGenerating =>
        /\ exit = "normal"
        /\ LastLines(output, 2) =
              <<[msg |-> "Error", arg |-> exc],
                IF script = "generate_alternate_icons"
                THEN [msg |-> "Traceback", arg |-> exc]
                ELSE [msg |-> "To fix this, install Pillow", arg |-> exc]>>
        /\ script = "generate_icon" => ~Printed("Traceback")
        /\ NothingRetried

\* generate_icon.py could not write the icon (its directory does not exist);
\* the exception was handled with the install-Pillow hint and no stack trace.
C8_Witness ==
    /\ script = "generate_icon"
    /\ pc = "done"
    /\ exc = "OSError"
    /\ icon_dir \notin dirs
    /\ exit = "normal"
    /\ output = <<[msg |-> "Error", arg |-> "OSError"],
                  [msg |-> "To fix this, install Pillow", arg |-> "OSError"]>>

\* ---- C9

ExpectedBatch ==
    << <<"Calculator", 120>>, <<"Calculator", 180>>, <<"Weather", 120>>,
       <<"Weather", 180>>, <<"Notes", 120>>, <<"Notes", 180>>,
       <<"Wellness", 120>>, <<"Wellness", 180>> >>

ExpectedPath(k) == WrittenPath(ExpectedBatch[k][1], ExpectedBatch[k][2])

Rendered(k) ==
    /\ Len(files[ExpectedPath(k)]) = 1
    /\ files[ExpectedPath(k)][1].mode = "RGB"
    /\ files[ExpectedPath(k)][1].size = <<ExpectedBatch[k][2], ExpectedBatch[k][2]>>
    /\ Len(files[ExpectedPath(k)][1].draws) > 0

BatchInOrder ==
    script = "generate_alternate_icons" =>
        /\ idx \in 0..8
        /\ \A k \in 1..idx :
              /\ output[k] = [msg |-> "Created icon", arg |-> ExpectedPath(k)]
              /\ Rendered(k)
        /\ \A i \in 1..idx : \A j \in 1..idx : i # j => output[i].arg # output[j].arg
        /\ \A k \in (idx + 1)..8 :
              /\ ~Rendered(k)
              /\ k > idx + 1 => files[ExpectedPath(k)] \in {<<>>, <<StaleImage>>}
        /\ Printed("All alternate icons generated successfully") =>
              /\ idx = 8
              /\ \A k \in 1..8 : Rendered(k)

BatchStep ==
    script = "generate_alternate_icons" =>
        /\ idx' \in {idx, idx + 1}
        /\ \A k \in 1..idx : files'[ExpectedPath(k)] = files[ExpectedPath(k)]
        /\ pc \in {"except", "done"} => files' = files /\ idx' = idx

\* C9: main makes the eight calls one after another in the order Calculator,
\* Weather, Notes, Wellness, 120 before 180, to pairwise distinct paths; when
\* the call at one position fails, the files written before stay as written,
\* nothing after it is rendered or written, and the success message is
\* printed only when all eight files were written.
C9_BatchSequential == []BatchInOrder /\ [][BatchStep]_vars

\* The write of the fourth pair failed and was handled: three files are as
\* written, the fourth is truncated, the rest are the stale ones.
C9_Witness ==
    /\ script = "generate_alternate_icons"
    /\ pc = "done"
    /\ exc = "OSError"
    /\ idx = 3
    /\ \A k \in 1..3 : Rendered(k)
    /\ files[ExpectedPath(4)] = <<TruncatedImage>>
    /\ \A k \in 5..8 : files[ExpectedPath(k)] = <<StaleImage>>

====
